---- MODULE Spec2Model ----
(***************************************************************************)
(* Planning poker: the Firestore access layer (src/src/firebase.ts) and    *)
(* the room view that projects the store into client state                 *)
(* (src/unnamed/part_000).                                                 *)
(*                                                                         *)
(* Representation.  Strings that the code trims or upper-cases are         *)
(* sequences of one-character strings.  A nullable document is a sequence  *)
(* of length 0 (null) or 1.  Store-assigned round ids are the integers     *)
(* 1, 2, ... and a null round id is 0; uids are 1..NumUids and a null uid  *)
(* is 0.  serverTimestamp() is the value of the clock `now` when the write *)
(* is applied; a timestamp field that a document does not have is -1.      *)
(* createdAt of rounds and votes is written but read nowhere and is left   *)
(* out of those documents.                                                 *)
(***************************************************************************)
EXTENDS Integers, Sequences, FiniteSets, TLC

\* ------------------------------------------------------------------ bounds
NumUids == 2
MaxRounds == 2
MaxClock == 1
MaxPending == 1
NumVoteValues == 2
NumCodes == 2
NumVoters == 3

\* ------------------------------------------------------- program constants
CARD_VALUES == <<0, 1, 2, 3, 5, 8, 13>>
CodeLength == 4
MaxAttempts == 10
LastRetryAttempt == 9

Uids == 1 .. NumUids
NoUid == 0
NoRound == 0
NoTime == -1
NoErr == "null"
None == << >>
Some(x) == << x >>

PermissionMsg == "Missing or insufficient permissions"
UnavailableMsg == "unavailable"
NoDocumentMsg == "No document to update"
RoomNotFoundMsg == "Room not found."
ExhaustedMsg == "Failed to create a unique room code. Please try again."

\* ------------------------------------------------------------ string model
RECURSIVE TrimStart(_)
TrimStart(s) ==
  IF s # << >> /\ Head(s) = " " THEN TrimStart(Tail(s)) ELSE s

RECURSIVE TrimEnd(_)
TrimEnd(s) ==
  IF s # << >> /\ s[Len(s)] = " " THEN TrimEnd(SubSeq(s, 1, Len(s) - 1)) ELSE s

Trim(s) == TrimEnd(TrimStart(s))

UpperChar(ch) ==
  CASE ch = "a" -> "A"
    [] ch = "b" -> "B"
    [] OTHER -> ch

ToUpperCase(s) == [i \in 1 .. Len(s) |-> UpperChar(s[i])]

normalizeRoomCodeNoTrim(code) == ToUpperCase(code)
normalizeRoomCode(code) == ToUpperCase(Trim(code))

Guest == <<"G", "u", "e", "s", "t">>
NameOrGuest(name) == IF Trim(name) = << >> THEN Guest ELSE Trim(name)

chars ==
  <<"A", "B", "C", "D", "E", "F", "G", "H", "J", "K", "L", "M", "N", "P", "Q", "R",
    "S", "T", "U", "V", "W", "X", "Y", "Z", "2", "3", "4", "5", "6", "7", "8", "9">>

\* draws[i] is Math.floor(Math.random() * chars.length) of the i-th iteration
generateRoomCode(draws) == [i \in 1 .. CodeLength |-> chars[draws[i] + 1]]

\* the random draws the model explores: the first three are 0, the last is below NumCodes
Draws == {[i \in 1 .. CodeLength |-> IF i = CodeLength THEN k ELSE 0] : k \in 0 .. (NumCodes - 1)}

\* the code of the room that the room views of Spec are mounted on
RoomCode == generateRoomCode([i \in 1 .. CodeLength |-> 0])

VoteInputs == {CARD_VALUES[i] : i \in 1 .. NumVoteValues}
TicketInputs == {<< >>, <<" ", "T">>}
NameInputs == {<<" ", "B", "o">>, <<" ">>}
HostName == <<"H">>

VARIABLES
  now,            \* the store's clock
  rooms,          \* rooms/{code}
  participants,   \* rooms/{code}/participants/{id}
  rounds,         \* rooms/{code}/rounds/{id}
  votes,          \* rooms/{code}/rounds/{round}/votes/{id}
  calls,          \* the calls of the access layer that are in flight
  cUid,           \* Room: uid state
  cRoom,          \* Room: room state
  cParticipants,  \* Room: participants state
  cRound,         \* Room: round state
  cVotes,         \* Room: votes state (a Map: document id -> VoteDoc)
  cTicket,        \* Room: ticket state
  cErr,           \* Room: err state
  mounted,        \* the uids whose Room view is mounted
  effDep,         \* Room: room?.currentRoundId the round + votes effect last ran with
  dead,           \* Room: the listeners whose error callback has run since they were attached
  seenRevealed,   \* history: the round ids a client has seen with revealed = true
  returned,       \* history: the codes createRoom has returned
  sVotes, sRevealed, sResult   \* SpecSummary: the inputs and the result of summary

storeVars == <<rooms, participants, rounds, votes>>
viewVars ==
  <<mounted, cUid, cRoom, cParticipants, cRound, cVotes, cTicket, cErr, effDep, dead,
    seenRevealed>>
sumVars == <<sVotes, sRevealed, sResult>>
vars == <<now, storeVars, calls, returned, viewVars, sumVars>>

\* ------------------------------------------------------------- documents
RoomDocOf(code, uid, t) ==
  [code |-> code, createdAt |-> t, createdBy |-> uid, currentRoundId |-> NoRound,
   updatedAt |-> t]

ParticipantDocOf(code, uid, name, t) ==
  [room |-> code, id |-> uid, uid |-> uid, name |-> Some(NameOrGuest(name)),
   joinedAt |-> t, lastSeenAt |-> t]

\* a participant document none of whose fields is set
BlankParticipant(code, id) ==
  [room |-> code, id |-> id, uid |-> NoUid, name |-> None, joinedAt |-> NoTime,
   lastSeenAt |-> NoTime]

RoundDocOf(code, id, uid, ticket) ==
  [room |-> code, id |-> id, createdBy |-> uid, ticket |-> Trim(ticket), revealed |-> FALSE]

\* the id of the Vote document castVote writes
VoteDocIdPerValue(uid, value) == <<uid, value>>

VoteDocId(uid, value) == <<uid>>

VoteDocOf(code, roundId, uid, value) ==
  [room |-> code, round |-> roundId, id |-> VoteDocId(uid, value), uid |-> uid,
   value |-> value]

\* ------------------------------------------------- the store's operations
RoomAt(code) == {r \in rooms : r.code = code}
RoundAt(code, id) == {r \in rounds : r.room = code /\ r.id = id}
VotesAt(code, roundId) == {v \in votes : v.room = code /\ v.round = roundId}
ParticipantsAt(code) == {p \in participants : p.room = code}
ParticipantAt(code, id) == {p \in participants : p.room = code /\ p.id = id}

\* setDoc(ref, data) on rooms/{code}/rounds/{round}/votes/{id}: replaces the document
SetVoteDoc(coll, d) ==
  {v \in coll : ~(v.room = d.room /\ v.round = d.round /\ v.id = d.id)} \cup {d}

\* setDoc(ref, data, { merge: true }) on rooms/{code}/participants/{id}: the fields
\* of data overwrite, the other fields of an existing document stay
MergeParticipantDoc(coll, code, id, data) ==
  LET old == {p \in coll : p.room = code /\ p.id = id}
      base == IF old = {} THEN BlankParticipant(code, id) ELSE CHOOSE p \in old : TRUE
      new == [f \in DOMAIN base |-> IF f \in DOMAIN data THEN data[f] ELSE base[f]]
  IN  (coll \ old) \cup {new}

DeleteParticipantDoc(coll, code, id) ==
  {p \in coll : ~(p.room = code /\ p.id = id)}

\* the store's rules, as the access layer relies on them: a write to rooms/{code}
\* of an existing room is an update and is denied; a participant is written only
\* under an existing room
RoomCreateAllowed(code) == RoomAt(code) = {}
ParticipantWriteAllowed(code) == RoomAt(code) # {}

\* addDoc assigns an id no document of the collection has
FreshRoundId == Cardinality(rounds) + 1

\* ---------------------------------------------------- calls in flight
\* stage: "w1" and "w2" wait for the first and second write of the call to be
\* applied, "ok" and "err" wait for the caller's continuation or catch block
NewCall(c, op) ==
  [c |-> c, n |-> CHOOSE i \in 1 .. MaxPending + 1 : \A k \in calls : k.c = c => k.n # i,
   op |-> op, stage |-> "w1",
   code |-> << >>, roundId |-> NoRound, value |-> 0, ticket |-> << >>, name |-> << >>,
   attempt |-> 0, err |-> NoErr,
   pre |-> {},        \* history: the room codes that exist (createRoom), or that hold a
                      \* Participant of the caller (leaveRoom), when the call starts
   leaving |-> FALSE] \* history, of touchPresence: the caller's onLeave is running when it starts

CanCall(c) == Cardinality({k \in calls : k.c = c}) < MaxPending

Replace(k, k2) == (calls \ {k}) \cup {k2}
Rejected(k, msg) == [k EXCEPT !.stage = "err", !.err = msg]
Resolved(k) == [k EXCEPT !.stage = "ok"]

\* ------------------------------------------------ Room: derived state
isOwnerAnyone(c) == cRoom[c] # None

isOwner(c) ==
  IF cRoom[c] = None \/ cUid[c] = NoUid THEN FALSE ELSE cRoom[c][1].createdBy = cUid[c]

revealed(c) == cRound[c] # None /\ cRound[c][1].revealed

\* Map.prototype.set
MapSet(m, key, val) == {e \in m : e[1] # key} \cup {<<key, val>>}

VoteData(d) == [uid |-> d.uid, value |-> d.value]

\* snap.docs.forEach((d) => m.set(d.id, d.data()))
RECURSIVE MapFromDocs(_)
MapFromDocs(docs) ==
  IF docs = {} THEN {}
  ELSE LET d == CHOOSE x \in docs : TRUE
       IN  MapSet(MapFromDocs(docs \ {d}), d.id, VoteData(d))

\* what the JSX offers
StartControlShown(c) == c \in mounted /\ cRound[c] = None /\ isOwner(c)
VoteControlEnabled(c) == c \in mounted /\ cRound[c] # None /\ ~revealed(c)
RevealControlEnabled(c) == c \in mounted /\ cRound[c] # None /\ isOwner(c) /\ ~revealed(c) /\ cVotes[c] # {}
ResetControlShown(c) == c \in mounted /\ cRound[c] # None /\ isOwner(c)

\* =========================================================== actions
\* time passes at the store
Tick ==
  /\ now < MaxClock
  /\ now' = now + 1
  /\ UNCHANGED <<storeVars, calls, viewVars, sumVars, returned>>

\* any write of a call in flight may fail at the store or on the way to it
WriteFails(k) ==
  /\ k.op \in {"startRound", "revealRound", "clearCurrentRound", "castVote",
              "touchPresence", "leaveRoom"}
  /\ k.stage \in {"w1", "w2"}
  /\ calls' = Replace(k, Rejected(k, UnavailableMsg))
  /\ UNCHANGED <<now, storeVars, viewVars, sumVars, returned>>

\* ---------------------------------------------------------- startRound
\* the documents of rooms/{code}/rounds after startRound's addDoc
RoundsAfterAddDocNothing(code, uid, ticket) == rounds

RoundsAfterAddDoc(code, uid, ticket) ==
  rounds \cup {RoundDocOf(code, FreshRoundId, uid, ticket)}

StartRoundAddDoc(k) ==
  /\ k.op = "startRound" /\ k.stage = "w1"
  /\ Cardinality(rounds) < MaxRounds
  /\ rounds' = RoundsAfterAddDoc(normalizeRoomCode(k.code), k.c, k.ticket)
  /\ calls' = Replace(k, [k EXCEPT !.stage = "w2", !.roundId = FreshRoundId])
  /\ UNCHANGED <<now, rooms, participants, votes, viewVars, sumVars, returned>>

\* updateDoc(roomRef, {currentRoundId, updatedAt}): rejected when the room is missing
StartRoundUpdateDoc(k) ==
  /\ k.op = "startRound" /\ k.stage = "w2"
  /\ LET code == normalizeRoomCode(k.code) IN
       IF RoomAt(code) = {}
       THEN /\ calls' = Replace(k, Rejected(k, NoDocumentMsg))
            /\ UNCHANGED rooms
       ELSE /\ rooms' = {IF r.code = code
                         THEN [r EXCEPT !.currentRoundId = k.roundId, !.updatedAt = now]
                         ELSE r : r \in rooms}
            /\ calls' = Replace(k, Resolved(k))
  /\ UNCHANGED <<now, participants, rounds, votes, viewVars, sumVars, returned>>

\* ---------------------------------------------------------- revealRound
RoundsAfterRevealToggle(code, roundId) ==
  {IF r.room = code /\ r.id = roundId THEN [r EXCEPT !.revealed = ~r.revealed] ELSE r
     : r \in rounds}

RoundsAfterReveal(code, roundId) ==
  {IF r.room = code /\ r.id = roundId THEN [r EXCEPT !.revealed = TRUE] ELSE r
     : r \in rounds}

RevealRound(k) ==
  /\ k.op = "revealRound" /\ k.stage = "w1"
  /\ LET code == normalizeRoomCode(k.code) IN
       IF RoundAt(code, k.roundId) = {}
       THEN /\ calls' = Replace(k, Rejected(k, NoDocumentMsg))
            /\ UNCHANGED rounds
       ELSE /\ rounds' = RoundsAfterReveal(code, k.roundId)
            /\ calls' = Replace(k, Resolved(k))
  /\ UNCHANGED <<now, rooms, participants, votes, viewVars, sumVars, returned>>

\* ----------------------------------------------------- clearCurrentRound
RoundsAfterClearDeleted(code) ==
  {r \in rounds : \A room \in RoomAt(code) : r.id # room.currentRoundId}

RoundsAfterClear(code) == rounds

ClearCurrentRound(k) ==
  /\ k.op = "clearCurrentRound" /\ k.stage = "w1"
  /\ LET code == normalizeRoomCode(k.code) IN
       IF RoomAt(code) = {}
       THEN /\ calls' = Replace(k, Rejected(k, NoDocumentMsg))
            /\ UNCHANGED <<rooms, rounds>>
       ELSE /\ rooms' = {IF r.code = code
                         THEN [r EXCEPT !.currentRoundId = NoRound, !.updatedAt = now]
                         ELSE r : r \in rooms}
            /\ rounds' = RoundsAfterClear(code)
            /\ calls' = Replace(k, Resolved(k))
  /\ UNCHANGED <<now, participants, votes, viewVars, sumVars, returned>>

\* -------------------------------------------------------------- castVote
CastVote(k) ==
  /\ k.op = "castVote" /\ k.stage = "w1"
  /\ votes' = SetVoteDoc(votes, VoteDocOf(normalizeRoomCode(k.code), k.roundId, k.c, k.value))
  /\ calls' = Replace(k, Resolved(k))
  /\ UNCHANGED <<now, rooms, participants, rounds, viewVars, sumVars, returned>>

\* ============================================================ Room view
\* ensureAnonAuth().then(user => setUid(user.uid))
AuthResolved(c) ==
  /\ c \in mounted
  /\ cUid[c] = NoUid
  /\ cUid' = [cUid EXCEPT ![c] = c]
  /\ UNCHANGED <<now, storeVars, mounted, calls, cRoom, cParticipants, cRound, cVotes, cTicket, cErr,
                 effDep, seenRevealed, sumVars, returned, dead>>

\* onChange of the ticket input, which is rendered with the Start control
TypeTicket(c, t) ==
  /\ StartControlShown(c)
  /\ cTicket[c] # t
  /\ cTicket' = [cTicket EXCEPT ![c] = t]
  /\ UNCHANGED <<now, storeVars, mounted, calls, cUid, cRoom, cParticipants, cRound, cVotes, cErr,
                 effDep, seenRevealed, sumVars, returned, dead>>

\* the room listener delivers the room document as it is now
RoomSnapshot(c) ==
  /\ c \in mounted /\ "room" \notin dead[c]
  /\ IF RoomAt(RoomCode) = {}
     THEN /\ cErr' = [cErr EXCEPT ![c] = "Room not found or you do not have access."]
          /\ cRoom' = [cRoom EXCEPT ![c] = None]
     ELSE /\ cRoom' = [cRoom EXCEPT ![c] = Some(CHOOSE r \in RoomAt(RoomCode) : TRUE)]
          /\ UNCHANGED cErr
  /\ UNCHANGED <<now, storeVars, mounted, calls, cUid, cParticipants, cRound, cVotes, cTicket,
                 effDep, seenRevealed, sumVars, returned, dead>>

\* query(participantsRef, orderBy("joinedAt", "asc")): the documents that have the
\* field, by joinedAt and then by document id
RECURSIVE OrderByJoinedAt(_)
OrderByJoinedAt(docs) ==
  IF docs = {} THEN << >>
  ELSE LET first == CHOOSE p \in docs : \A q \in docs :
                      \/ p.joinedAt < q.joinedAt
                      \/ (p.joinedAt = q.joinedAt /\ p.id <= q.id)
       IN  <<first>> \o OrderByJoinedAt(docs \ {first})

ParticipantsSnapshot(c) ==
  /\ c \in mounted /\ "participants" \notin dead[c]
  /\ cParticipants' = [cParticipants EXCEPT ![c] =
       OrderByJoinedAt({p \in ParticipantsAt(RoomCode) : p.joinedAt # NoTime})]
  /\ UNCHANGED <<now, storeVars, mounted, calls, cUid, cRoom, cRound, cVotes, cTicket, cErr,
                 effDep, seenRevealed, sumVars, returned, dead>>

\* room?.currentRoundId of the last render
RoundDepStale(c) == effDep[c]

RoundDep(c) == IF cRoom[c] = None THEN NoRound ELSE cRoom[c][1].currentRoundId

\* the round state after the effect has run with no current round
RoundOnNoCurrentKept(c) == cRound[c]

RoundOnNoCurrent(c) == None

\* the round + votes effect re-runs when room?.currentRoundId has changed: the
\* cleanup releases the round and votes listeners, then the body resets the round
\* and the votes or attaches the listeners of the new round
RoundEffect(c) ==
  /\ c \in mounted
  /\ RoundDep(c) # effDep[c]
  /\ effDep' = [effDep EXCEPT ![c] = RoundDep(c)]
  /\ dead' = [dead EXCEPT ![c] = @ \ {"round", "votes"}]
  /\ IF RoundDep(c) = NoRound
     THEN /\ cRound' = [cRound EXCEPT ![c] = RoundOnNoCurrent(c)]
          /\ cVotes' = [cVotes EXCEPT ![c] = {}]
     ELSE UNCHANGED <<cRound, cVotes>>
  /\ UNCHANGED <<now, storeVars, mounted, calls, cUid, cRoom, cParticipants, cTicket, cErr,
                 seenRevealed, sumVars, returned>>

\* the round listener delivers the round document as it is now
RoundSnapshot(c) ==
  /\ c \in mounted /\ "round" \notin dead[c]
  /\ effDep[c] # NoRound
  /\ LET docs == RoundAt(RoomCode, effDep[c]) IN
       IF docs = {}
       THEN /\ cRound' = [cRound EXCEPT ![c] = None]
            /\ UNCHANGED seenRevealed
       ELSE LET d == CHOOSE r \in docs : TRUE IN
            /\ cRound' = [cRound EXCEPT ![c] = Some(d)]
            /\ seenRevealed' = [seenRevealed EXCEPT ![c] =
                                  IF d.revealed THEN @ \cup {d.id} ELSE @]
  /\ UNCHANGED <<now, storeVars, mounted, calls, cUid, cRoom, cParticipants, cVotes, cTicket, cErr,
                 effDep, sumVars, returned, dead>>

\* the votes listener delivers the vote documents as they are now
VotesSnapshot(c) ==
  /\ c \in mounted /\ "votes" \notin dead[c]
  /\ effDep[c] # NoRound
  /\ cVotes' = [cVotes EXCEPT ![c] = MapFromDocs(VotesAt(RoomCode, effDep[c]))]
  /\ UNCHANGED <<now, storeVars, mounted, calls, cUid, cRoom, cParticipants, cRound, cTicket, cErr,
                 effDep, seenRevealed, sumVars, returned, dead>>

\* ------------------------------------------------------ listener errors
\* e?.message || fallback
MessageOr(message, fallback) == IF message = "" THEN fallback ELSE message

FeedErrors == {"", UnavailableMsg}

Fallback(listener) ==
  CASE listener = "room" -> "Failed to read room."
    [] listener = "participants" -> "Failed to read participants."
    [] listener = "round" -> "Failed to read round."
    [] listener = "votes" -> "Failed to read votes."

\* the room state after the error callback of a listener has run
RoomOnListenerErrorCleared(c) == None

RoomOnListenerError(c) == cRoom[c]

\* a listener that is attached reports an error: its error callback runs and the
\* listener delivers nothing from then on
ListenerError(c, listener, message) ==
  /\ c \in mounted /\ listener \notin dead[c]
  /\ listener \in {"round", "votes"} => effDep[c] # NoRound
  /\ dead' = [dead EXCEPT ![c] = @ \cup {listener}]
  /\ cErr' = [cErr EXCEPT ![c] = MessageOr(message, Fallback(listener))]
  /\ cRoom' = [cRoom EXCEPT ![c] = RoomOnListenerError(c)]
  /\ UNCHANGED <<now, storeVars, mounted, calls, cUid, cParticipants, cRound, cVotes, cTicket,
                 effDep, seenRevealed, sumVars, returned>>

\* ------------------------------------------------------------- handlers
OnStartRound(c) ==
  /\ StartControlShown(c) /\ CanCall(c)
  /\ isOwner(c)
  /\ cErr' = [cErr EXCEPT ![c] = NoErr]
  /\ calls' = calls \cup {[NewCall(c, "startRound") EXCEPT !.code = RoomCode,
                                                            !.ticket = cTicket[c]]}
  /\ UNCHANGED <<now, storeVars, mounted, cUid, cRoom, cParticipants, cRound, cVotes, cTicket,
                 effDep, seenRevealed, sumVars, returned, dead>>

SettleStartRound(k) ==
  /\ k.op = "startRound" /\ k.stage \in {"ok", "err"}
  /\ calls' = calls \ {k}
  /\ IF k.stage = "ok"
     THEN /\ cTicket' = [cTicket EXCEPT ![k.c] = << >>]
          /\ UNCHANGED cErr
     ELSE /\ cErr' = [cErr EXCEPT ![k.c] = k.err]
          /\ UNCHANGED cTicket
  /\ UNCHANGED <<now, storeVars, mounted, cUid, cRoom, cParticipants, cRound, cVotes,
                 effDep, seenRevealed, sumVars, returned, dead>>

OnReveal(c) ==
  /\ RevealControlEnabled(c) /\ CanCall(c)
  /\ isOwner(c) /\ cRound[c] # None
  /\ cErr' = [cErr EXCEPT ![c] = NoErr]
  /\ calls' = calls \cup {[NewCall(c, "revealRound") EXCEPT !.code = RoomCode,
                                                             !.roundId = cRound[c][1].id]}
  /\ UNCHANGED <<now, storeVars, mounted, cUid, cRoom, cParticipants, cRound, cVotes, cTicket,
                 effDep, seenRevealed, sumVars, returned, dead>>

SettleReveal(k) ==
  /\ k.op = "revealRound" /\ k.stage \in {"ok", "err"}
  /\ calls' = calls \ {k}
  /\ cErr' = IF k.stage = "err" THEN [cErr EXCEPT ![k.c] = k.err] ELSE cErr
  /\ UNCHANGED <<now, storeVars, mounted, cUid, cRoom, cParticipants, cRound, cVotes, cTicket,
                 effDep, seenRevealed, sumVars, returned, dead>>

OnReset(c) ==
  /\ ResetControlShown(c) /\ CanCall(c)
  /\ isOwner(c)
  /\ cErr' = [cErr EXCEPT ![c] = NoErr]
  /\ calls' = calls \cup {[NewCall(c, "clearCurrentRound") EXCEPT !.code = RoomCode]}
  /\ UNCHANGED <<now, storeVars, mounted, cUid, cRoom, cParticipants, cRound, cVotes, cTicket,
                 effDep, seenRevealed, sumVars, returned, dead>>

SettleReset(k) ==
  /\ k.op = "clearCurrentRound" /\ k.stage \in {"ok", "err"}
  /\ calls' = calls \ {k}
  /\ IF k.stage = "ok"
     THEN /\ cVotes' = [cVotes EXCEPT ![k.c] = {}]
          /\ cRound' = [cRound EXCEPT ![k.c] = None]
          /\ UNCHANGED cErr
     ELSE /\ cErr' = [cErr EXCEPT ![k.c] = k.err]
          /\ UNCHANGED <<cVotes, cRound>>
  /\ UNCHANGED <<now, storeVars, mounted, cUid, cRoom, cParticipants, cTicket,
                 effDep, seenRevealed, sumVars, returned, dead>>

\* the guard of onVote: if (!round || revealed) return
VoteGuard(c) == cRound[c] # None /\ ~revealed(c)

OnVote(c, v) ==
  /\ VoteControlEnabled(c) /\ CanCall(c)
  /\ VoteGuard(c)
  /\ cErr' = [cErr EXCEPT ![c] = NoErr]
  /\ calls' = calls \cup {[NewCall(c, "castVote") EXCEPT !.code = RoomCode,
                                                          !.roundId = cRound[c][1].id,
                                                          !.value = v]}
  /\ UNCHANGED <<now, storeVars, mounted, cUid, cRoom, cParticipants, cRound, cVotes, cTicket,
                 effDep, seenRevealed, sumVars, returned, dead>>

SettleVote(k) ==
  /\ k.op = "castVote" /\ k.stage \in {"ok", "err"}
  /\ calls' = calls \ {k}
  /\ cErr' = IF k.stage = "err" THEN [cErr EXCEPT ![k.c] = k.err] ELSE cErr
  /\ UNCHANGED <<now, storeVars, mounted, cUid, cRoom, cParticipants, cRound, cVotes, cTicket,
                 effDep, seenRevealed, sumVars, returned, dead>>

\* ======================================================== specification
InitView(viewers) ==
  /\ mounted = viewers
  /\ cRoom = [c \in Uids |-> None]
  /\ cParticipants = [c \in Uids |-> << >>]
  /\ cRound = [c \in Uids |-> None]
  /\ cVotes = [c \in Uids |-> {}]
  /\ cTicket = [c \in Uids |-> << >>]
  /\ cErr = [c \in Uids |-> NoErr]
  /\ effDep = [c \in Uids |-> NoRound]
  /\ dead = [c \in Uids |-> {}]
  /\ seenRevealed = [c \in Uids |-> {}]

InitSummary ==
  /\ sVotes = {}
  /\ sRevealed = FALSE
  /\ sResult = None

\* Spec: the rounds of one room, driven by its host.  The room RoomCode exists,
\* created by uid 1, every uid has joined it, and the host has just opened the
\* room view.
Init ==
  /\ now = 0
  /\ rooms = {RoomDocOf(RoomCode, 1, 0)}
  /\ participants = {ParticipantDocOf(RoomCode, u, HostName, 0) : u \in Uids}
  /\ rounds = {}
  /\ votes = {}
  /\ calls = {}
  /\ InitView({1})
  /\ cUid = [c \in Uids |-> NoUid]
  /\ InitSummary
  /\ returned = {}

Next ==
  \/ Tick
  \/ \E k \in calls : WriteFails(k)
  \/ \E k \in calls : StartRoundAddDoc(k)
  \/ \E k \in calls : StartRoundUpdateDoc(k)
  \/ \E k \in calls : RevealRound(k)
  \/ \E k \in calls : ClearCurrentRound(k)
  \/ \E k \in calls : CastVote(k)
  \/ \E c \in Uids : AuthResolved(c)
  \/ \E c \in Uids, t \in TicketInputs : TypeTicket(c, t)
  \/ \E c \in Uids : RoomSnapshot(c)
  \/ \E c \in Uids : RoundEffect(c)
  \/ \E c \in Uids : RoundSnapshot(c)
  \/ \E c \in Uids : VotesSnapshot(c)
  \/ \E c \in Uids : OnStartRound(c)
  \/ \E k \in calls : SettleStartRound(k)
  \/ \E c \in Uids : OnReveal(c)
  \/ \E k \in calls : SettleReveal(k)
  \/ \E c \in Uids : OnReset(c)
  \/ \E k \in calls : SettleReset(k)
  \/ \E c \in Uids, v \in VoteInputs : OnVote(c, v)
  \/ \E k \in calls : SettleVote(k)

Spec == Init /\ [][Next]_vars

\* SpecVote: one open round with several voters.  The host has started round 1
\* and every uid has the room view open with its uid resolved; the views have
\* received no snapshot yet.
InitVote ==
  /\ now = 0
  /\ rooms = {[RoomDocOf(RoomCode, 1, 0) EXCEPT !.currentRoundId = 1]}
  /\ participants = {ParticipantDocOf(RoomCode, u, HostName, 0) : u \in Uids}
  /\ rounds = {RoundDocOf(RoomCode, 1, 1, << >>)}
  /\ votes = {}
  /\ calls = {}
  /\ InitView(Uids)
  /\ cUid = [c \in Uids |-> c]
  /\ InitSummary
  /\ returned = {}

NextVote ==
  \/ \E k \in calls : RevealRound(k)
  \/ \E k \in calls : CastVote(k)
  \/ \E c \in Uids : RoomSnapshot(c)
  \/ \E c \in Uids : RoundEffect(c)
  \/ \E c \in Uids : RoundSnapshot(c)
  \/ \E c \in Uids : VotesSnapshot(c)
  \/ \E c \in Uids : OnReveal(c)
  \/ \E k \in calls : SettleReveal(k)
  \/ \E c \in Uids, v \in VoteInputs : OnVote(c, v)
  \/ \E k \in calls : SettleVote(k)

SpecVote == InitVote /\ [][NextVote]_vars

\* SpecOwner: every uid has joined the room RoomCode of uid 1 and has just opened
\* the room view; the host runs rounds and the other uids vote
InitOwner ==
  /\ now = 0
  /\ rooms = {RoomDocOf(RoomCode, 1, 0)}
  /\ participants = {ParticipantDocOf(RoomCode, u, HostName, 0) : u \in Uids}
  /\ rounds = {}
  /\ votes = {}
  /\ calls = {}
  /\ InitView(Uids)
  /\ cUid = [c \in Uids |-> NoUid]
  /\ InitSummary
  /\ returned = {RoomCode}

NextOwner ==
  \/ \E k \in calls : StartRoundAddDoc(k)
  \/ \E k \in calls : StartRoundUpdateDoc(k)
  \/ \E k \in calls : RevealRound(k)
  \/ \E k \in calls : ClearCurrentRound(k)
  \/ \E k \in calls : CastVote(k)
  \/ \E c \in Uids : AuthResolved(c)
  \/ \E c \in Uids : RoomSnapshot(c)
  \/ \E c \in Uids : RoundEffect(c)
  \/ \E c \in Uids : RoundSnapshot(c)
  \/ \E c \in Uids : VotesSnapshot(c)
  \/ \E c \in Uids : OnStartRound(c)
  \/ \E k \in calls : SettleStartRound(k)
  \/ \E c \in Uids : OnReveal(c)
  \/ \E k \in calls : SettleReveal(k)
  \/ \E c \in Uids : OnReset(c)
  \/ \E k \in calls : SettleReset(k)
  \/ \E c \in Uids \ {1} : OnVote(c, CARD_VALUES[1])
  \/ \E k \in calls : SettleVote(k)

SpecOwner == InitOwner /\ [][NextOwner]_vars

\* ============================================================== lobby

\* the params.code joinRoom is called with: the generated codes in lower case,
\* the even ones padded with blanks
RECURSIVE LowerCase(_)
LowerCase(s) ==
  IF s = << >> THEN << >>
  ELSE <<CASE Head(s) = "A" -> "a" [] Head(s) = "B" -> "b" [] OTHER -> Head(s)>>
         \o LowerCase(Tail(s))

TypedCode(d) ==
  IF d[CodeLength] % 2 = 0
  THEN <<" ">> \o LowerCase(generateRoomCode(d)) \o <<" ">>
  ELSE LowerCase(generateRoomCode(d))

\* Home: the Create and Join buttons are disabled while busy
HomeIdle(u) == \A k \in calls : k.c # u

\* ----------------------------------------------------------- createRoom
CreateRoomCalled(u, name, draws) ==
  /\ HomeIdle(u)
  /\ calls' = calls \cup {[NewCall(u, "createRoom") EXCEPT !.name = name,
                                                            !.code = generateRoomCode(draws),
                                                            !.pre = {r.code : r \in rooms}]}
  /\ UNCHANGED <<now, storeVars, viewVars, sumVars, returned>>

\* the catch block of an attempt and the loop around it: the next attempt with a
\* fresh code, or the error thrown
CreateRoomCaughtGoesOn(k, msg, draws) ==
  IF msg = PermissionMsg THEN [k EXCEPT !.stage = "w2"] ELSE Rejected(k, msg)

CreateRoomCaught(k, msg, draws) ==
  IF msg = PermissionMsg /\ k.attempt < LastRetryAttempt
  THEN IF k.attempt + 1 < MaxAttempts
       THEN [k EXCEPT !.attempt = k.attempt + 1, !.code = generateRoomCode(draws),
                      !.stage = "w1"]
       ELSE Rejected(k, ExhaustedMsg)
  ELSE Rejected(k, msg)

\* 1) setDoc(roomRef, room)
CreateRoomSetRoom(k, draws) ==
  /\ k.op = "createRoom" /\ k.stage = "w1"
  /\ IF ~RoomCreateAllowed(k.code)
     THEN /\ calls' = Replace(k, CreateRoomCaught(k, PermissionMsg, draws))
          /\ UNCHANGED rooms
     ELSE /\ rooms' = {r \in rooms : r.code # k.code} \cup {RoomDocOf(k.code, k.c, now)}
          /\ calls' = Replace(k, [k EXCEPT !.stage = "w2"])
  /\ UNCHANGED <<now, participants, rounds, votes, viewVars, sumVars, returned>>

\* 2) setDoc(participantRef, participant, { merge: true }); return code
CreateRoomSetParticipant(k, draws) ==
  /\ k.op = "createRoom" /\ k.stage = "w2"
  /\ IF ParticipantWriteAllowed(k.code)
     THEN /\ participants' = MergeParticipantDoc(participants, k.code, k.c,
                                                 ParticipantDocOf(k.code, k.c, k.name, now))
          /\ calls' = Replace(k, Resolved(k))
          /\ returned' = returned \cup {k.code}
     ELSE /\ calls' = Replace(k, CreateRoomCaught(k, PermissionMsg, draws))
          /\ UNCHANGED <<participants, returned>>
  /\ UNCHANGED <<now, rooms, rounds, votes, viewVars, sumVars>>

\* a write of createRoom fails for another reason than the rules
CreateRoomWriteFails(k, draws) ==
  /\ k.op = "createRoom" /\ k.stage \in {"w1", "w2"}
  /\ calls' = Replace(k, CreateRoomCaught(k, UnavailableMsg, draws))
  /\ UNCHANGED <<now, storeVars, viewVars, sumVars, returned>>

\* ------------------------------------------------------------- joinRoom
JoinRoomCalled(u, code, name) ==
  /\ HomeIdle(u)
  /\ calls' = calls \cup {[NewCall(u, "joinRoom") EXCEPT !.name = name, !.code = code]}
  /\ UNCHANGED <<now, storeVars, viewVars, sumVars, returned>>

JoinRoomCaught(k, msg) ==
  IF msg = PermissionMsg THEN Rejected(k, RoomNotFoundMsg) ELSE Rejected(k, msg)

JoinRoomSetDoc(k) ==
  /\ k.op = "joinRoom" /\ k.stage = "w1"
  /\ LET code == normalizeRoomCode(k.code) IN
       IF ParticipantWriteAllowed(code)
       THEN /\ participants' = MergeParticipantDoc(participants, code, k.c,
                                                   ParticipantDocOf(code, k.c, k.name, now))
            /\ calls' = Replace(k, Resolved(k))
       ELSE /\ calls' = Replace(k, JoinRoomCaught(k, PermissionMsg))
            /\ UNCHANGED participants
  /\ UNCHANGED <<now, rooms, rounds, votes, viewVars, sumVars, returned>>

JoinRoomWriteFails(k) ==
  /\ k.op = "joinRoom" /\ k.stage = "w1"
  /\ calls' = Replace(k, JoinRoomCaught(k, UnavailableMsg))
  /\ UNCHANGED <<now, storeVars, viewVars, sumVars, returned>>

\* the caller takes the result of createRoom or joinRoom
LobbyCallSettled(k) ==
  /\ k.op \in {"createRoom", "joinRoom"} /\ k.stage \in {"ok", "err"}
  /\ calls' = calls \ {k}
  /\ UNCHANGED <<now, storeVars, viewVars, sumVars, returned>>

\* SpecLobby: no room exists and no view is mounted; the uids create rooms
InitLobby ==
  /\ now = 0
  /\ rooms = {}
  /\ participants = {}
  /\ rounds = {}
  /\ votes = {}
  /\ calls = {}
  /\ InitView({})
  /\ cUid = [c \in Uids |-> NoUid]
  /\ InitSummary
  /\ returned = {}

NextLobby ==
  \/ \E u \in Uids, d \in Draws : CreateRoomCalled(u, HostName, d)
  \/ \E k \in calls, d \in Draws : CreateRoomSetRoom(k, d)
  \/ \E k \in calls, d \in Draws : CreateRoomSetParticipant(k, d)
  \/ \E k \in calls, d \in Draws : CreateRoomWriteFails(k, d)
  \/ \E k \in calls : LobbyCallSettled(k)

SpecLobby == InitLobby /\ [][NextLobby]_vars

\* SpecJoin: uid 1 has created the room RoomCode, no other room exists, and the
\* uids join by typing a code
InitJoin ==
  /\ now = 0
  /\ rooms = {RoomDocOf(RoomCode, 1, 0)}
  /\ participants = {ParticipantDocOf(RoomCode, 1, HostName, 0)}
  /\ rounds = {}
  /\ votes = {}
  /\ calls = {}
  /\ InitView({})
  /\ cUid = [c \in Uids |-> NoUid]
  /\ InitSummary
  /\ returned = {RoomCode}

NextJoin ==
  \/ Tick
  \/ \E u \in Uids, d \in Draws, name \in NameInputs : JoinRoomCalled(u, TypedCode(d), name)
  \/ \E k \in calls : JoinRoomSetDoc(k)
  \/ \E k \in calls : JoinRoomWriteFails(k)
  \/ \E k \in calls : LobbyCallSettled(k)

SpecJoin == InitJoin /\ [][NextJoin]_vars

\* SpecSync: the host has the room view open on its new room and runs rounds in
\* it while uid 2 joins from the lobby.  The store delivers to every attached
\* listener, and the view runs every effect that is due.
InitSync ==
  /\ now = 0
  /\ rooms = {RoomDocOf(RoomCode, 1, 0)}
  /\ participants = {ParticipantDocOf(RoomCode, 1, HostName, 0)}
  /\ rounds = {}
  /\ votes = {}
  /\ calls = {}
  /\ InitView({1})
  /\ cUid = [c \in Uids |-> IF c = 1 THEN c ELSE NoUid]
  /\ InitSummary
  /\ returned = {RoomCode}

NextSync ==
  \/ \E k \in calls : StartRoundAddDoc(k)
  \/ \E k \in calls : StartRoundUpdateDoc(k)
  \/ \E k \in calls : RevealRound(k)
  \/ \E k \in calls : ClearCurrentRound(k)
  \/ \E k \in calls : CastVote(k)
  \/ \E c \in Uids : RoomSnapshot(c)
  \/ \E c \in Uids : ParticipantsSnapshot(c)
  \/ \E c \in Uids : RoundEffect(c)
  \/ \E c \in Uids : RoundSnapshot(c)
  \/ \E c \in Uids : VotesSnapshot(c)
  \/ \E c \in Uids : OnStartRound(c)
  \/ \E k \in calls : SettleStartRound(k)
  \/ \E c \in Uids : OnReveal(c)
  \/ \E k \in calls : SettleReveal(k)
  \/ \E c \in Uids : OnReset(c)
  \/ \E k \in calls : SettleReset(k)
  \/ \E c \in Uids, v \in VoteInputs : OnVote(c, v)
  \/ \E k \in calls : SettleVote(k)
  \/ \E u \in Uids \ mounted : JoinRoomCalled(u, LowerCase(RoomCode), HostName)
  \/ \E k \in calls : JoinRoomSetDoc(k)
  \/ \E k \in calls : LobbyCallSettled(k)

FairSync ==
  \A c \in Uids :
    /\ WF_vars(RoomSnapshot(c))
    /\ WF_vars(ParticipantsSnapshot(c))
    /\ WF_vars(RoundEffect(c))
    /\ WF_vars(RoundSnapshot(c))
    /\ WF_vars(VotesSnapshot(c))

SpecSync == InitSync /\ [][NextSync]_vars /\ FairSync

\* SpecFeed: the host has started round 1 and has just opened the room view; the
\* listeners of the view deliver or fail while the host votes and resets
Listeners == {"room", "participants", "round", "votes"}

InitFeed ==
  /\ now = 0
  /\ rooms = {[RoomDocOf(RoomCode, 1, 0) EXCEPT !.currentRoundId = 1]}
  /\ participants = {ParticipantDocOf(RoomCode, u, HostName, 0) : u \in Uids}
  /\ rounds = {RoundDocOf(RoomCode, 1, 1, << >>)}
  /\ votes = {}
  /\ calls = {}
  /\ InitView({1})
  /\ cUid = [c \in Uids |-> IF c = 1 THEN c ELSE NoUid]
  /\ InitSummary
  /\ returned = {RoomCode}

NextFeed ==
  \/ \E k \in calls : ClearCurrentRound(k)
  \/ \E k \in calls : CastVote(k)
  \/ \E c \in Uids : RoomSnapshot(c)
  \/ \E c \in Uids : ParticipantsSnapshot(c)
  \/ \E c \in Uids : RoundEffect(c)
  \/ \E c \in Uids : RoundSnapshot(c)
  \/ \E c \in Uids : VotesSnapshot(c)
  \/ \E c \in Uids, l \in Listeners, e \in FeedErrors : ListenerError(c, l, e)
  \/ \E c \in Uids : OnReset(c)
  \/ \E k \in calls : SettleReset(k)
  \/ \E c \in Uids, v \in VoteInputs : OnVote(c, v)
  \/ \E k \in calls : SettleVote(k)

SpecFeed == InitFeed /\ [][NextFeed]_vars

\* ========================================================= membership
\* the documents of rooms/{code}/participants after leaveRoom's deleteDoc
ParticipantsAfterLeaveNobody(code, uid) == {p \in participants : p.room # code}

ParticipantsAfterLeave(code, uid) == DeleteParticipantDoc(participants, code, uid)

\* the fields touchPresence writes
PresenceData(t) == [lastSeenAt |-> t]

\* setDoc(participantRef, { lastSeenAt }, { merge: true })
TouchPresenceSetDoc(k) ==
  /\ k.op = "touchPresence" /\ k.stage = "w1"
  /\ LET code == normalizeRoomCode(k.code) IN
       IF ParticipantWriteAllowed(code)
       THEN /\ participants' = MergeParticipantDoc(participants, code, k.c, PresenceData(now))
            /\ calls' = Replace(k, Resolved(k))
       ELSE /\ calls' = Replace(k, Rejected(k, PermissionMsg))
            /\ UNCHANGED participants
  /\ UNCHANGED <<now, rooms, rounds, votes, viewVars, sumVars, returned>>

\* deleteDoc(participantRef): deleting a document that does not exist succeeds
LeaveRoomDeleteDoc(k) ==
  /\ k.op = "leaveRoom" /\ k.stage = "w1"
  /\ participants' = ParticipantsAfterLeave(normalizeRoomCode(k.code), k.c)
  /\ calls' = Replace(k, Resolved(k))
  /\ UNCHANGED <<now, rooms, rounds, votes, viewVars, sumVars, returned>>

\* the access layer called directly
TouchPresenceCalled(u, code) ==
  /\ CanCall(u)
  /\ calls' = calls \cup {[NewCall(u, "touchPresence") EXCEPT !.code = code]}
  /\ UNCHANGED <<now, storeVars, viewVars, sumVars, returned>>

LeaveRoomCalled(u, code) ==
  /\ CanCall(u)
  /\ calls' = calls \cup {[NewCall(u, "leaveRoom") EXCEPT
                             !.code = code,
                             !.pre = {q.room : q \in {x \in participants : x.id = u}}]}
  /\ UNCHANGED <<now, storeVars, viewVars, sumVars, returned>>

\* the caller takes the result of touchPresence or leaveRoom
MemberCallSettled(k) ==
  /\ k.op \in {"touchPresence", "leaveRoom"} /\ k.stage \in {"ok", "err"}
  /\ calls' = calls \ {k}
  /\ UNCHANGED <<now, storeVars, viewVars, sumVars, returned>>

\* SpecMember: the room RoomCode, created by uid 1, has a revealed round with a vote
\* of every uid; the uids join, refresh their presence and leave
InitMember ==
  /\ now = 0
  /\ rooms = {[RoomDocOf(RoomCode, 1, 0) EXCEPT !.currentRoundId = 1]}
  /\ participants = {ParticipantDocOf(RoomCode, 1, HostName, 0)}
  /\ rounds = {[RoundDocOf(RoomCode, 1, 1, << >>) EXCEPT !.revealed = TRUE]}
  /\ votes = {VoteDocOf(RoomCode, 1, u, CARD_VALUES[1]) : u \in Uids}
  /\ calls = {}
  /\ InitView({})
  /\ cUid = [c \in Uids |-> NoUid]
  /\ InitSummary
  /\ returned = {RoomCode}

NextMember ==
  \/ Tick
  \/ \E k \in calls : WriteFails(k)
  \/ \E u \in Uids, name \in NameInputs : JoinRoomCalled(u, LowerCase(RoomCode), name)
  \/ \E k \in calls : JoinRoomSetDoc(k)
  \/ \E k \in calls : LobbyCallSettled(k)
  \/ \E u \in Uids : TouchPresenceCalled(u, LowerCase(RoomCode))
  \/ \E k \in calls : TouchPresenceSetDoc(k)
  \/ \E u \in Uids : LeaveRoomCalled(u, LowerCase(RoomCode))
  \/ \E k \in calls : LeaveRoomDeleteDoc(k)
  \/ \E k \in calls : MemberCallSettled(k)

SpecMember == InitMember /\ [][NextMember]_vars

\* ----------------------------------------------- Room: presence and leave
InFlight(c, op) == {k \in calls : k.c = c /\ k.op = op}

\* the interval of the presence ping effect fires: touchPresence(code)
PresencePing(c) ==
  /\ c \in mounted
  /\ Cardinality(InFlight(c, "touchPresence")) < MaxPending
  /\ calls' = calls \cup {[NewCall(c, "touchPresence") EXCEPT
                             !.code = RoomCode,
                             !.leaving = (InFlight(c, "leaveRoom") # {})]}
  /\ UNCHANGED <<now, storeVars, viewVars, sumVars, returned>>

\* .catch(() => void 0)
SettleTouch(k) ==
  /\ k.op = "touchPresence" /\ k.stage \in {"ok", "err"}
  /\ calls' = calls \ {k}
  /\ UNCHANGED <<now, storeVars, viewVars, sumVars, returned>>

OnLeave(c) ==
  /\ c \in mounted
  /\ Cardinality(InFlight(c, "leaveRoom")) < MaxPending
  /\ calls' = calls \cup {[NewCall(c, "leaveRoom") EXCEPT
                             !.code = RoomCode,
                             !.pre = {q.room : q \in {x \in participants : x.id = c}}]}
  /\ UNCHANGED <<now, storeVars, viewVars, sumVars, returned>>

\* the state of a Room view that is not mounted is the initial state of the next mount
Unmount(f, c, initial) == [f EXCEPT ![c] = initial]

\* catch { } finally { nav("/") }: the Room view unmounts, the cleanups of its
\* effects release the listeners and clear the interval
SettleLeave(k) ==
  /\ k.op = "leaveRoom" /\ k.stage \in {"ok", "err"}
  /\ calls' = calls \ {k}
  /\ mounted' = mounted \ {k.c}
  /\ cUid' = Unmount(cUid, k.c, NoUid)
  /\ cRoom' = Unmount(cRoom, k.c, None)
  /\ cParticipants' = Unmount(cParticipants, k.c, << >>)
  /\ cRound' = Unmount(cRound, k.c, None)
  /\ cVotes' = Unmount(cVotes, k.c, {})
  /\ cTicket' = Unmount(cTicket, k.c, << >>)
  /\ cErr' = Unmount(cErr, k.c, NoErr)
  /\ effDep' = Unmount(effDep, k.c, NoRound)
  /\ dead' = Unmount(dead, k.c, {})
  /\ UNCHANGED <<now, storeVars, seenRevealed, sumVars, returned>>

\* Home.onJoin after the await: nav to the room mounts the Room view, an error is shown
HomeJoinSettled(k) ==
  /\ k.op = "joinRoom" /\ k.stage \in {"ok", "err"}
  /\ calls' = calls \ {k}
  /\ mounted' = IF k.stage = "ok" THEN mounted \cup {k.c} ELSE mounted
  /\ UNCHANGED <<now, storeVars, cUid, cRoom, cParticipants, cRound, cVotes, cTicket, cErr,
                 effDep, dead, seenRevealed, sumVars, returned>>

\* SpecPresence: every uid has joined the room RoomCode and has the room view
\* open; the views ping, the users leave and join again from the lobby
InitPresence ==
  /\ now = 0
  /\ rooms = {RoomDocOf(RoomCode, 1, 0)}
  /\ participants = {ParticipantDocOf(RoomCode, u, HostName, 0) : u \in Uids}
  /\ rounds = {}
  /\ votes = {}
  /\ calls = {}
  /\ InitView(Uids)
  /\ cUid = [c \in Uids |-> NoUid]
  /\ InitSummary
  /\ returned = {RoomCode}

NextPresence ==
  \/ Tick
  \/ \E k \in calls : WriteFails(k)
  \/ \E c \in Uids : AuthResolved(c)
  \/ \E c \in Uids : PresencePing(c)
  \/ \E k \in calls : TouchPresenceSetDoc(k)
  \/ \E k \in calls : SettleTouch(k)
  \/ \E c \in Uids : OnLeave(c)
  \/ \E k \in calls : LeaveRoomDeleteDoc(k)
  \/ \E k \in calls : SettleLeave(k)
  \/ \E u \in Uids \ mounted : JoinRoomCalled(u, RoomCode, HostName)
  \/ \E k \in calls : JoinRoomSetDoc(k)
  \/ \E k \in calls : HomeJoinSettled(k)

SpecPresence == InitPresence /\ [][NextPresence]_vars

\* ============================================================ summary
\* Array.from(votes.values()).map((v) => v.value)
RECURSIVE ValuesOfTruthy(_)
ValuesOfTruthy(m) ==
  IF m = {} THEN << >>
  ELSE LET e == CHOOSE x \in m : TRUE
       IN  (IF e[2].value = 0 THEN << >> ELSE <<e[2].value>>) \o ValuesOfTruthy(m \ {e})

RECURSIVE ValuesOf(_)
ValuesOf(m) ==
  IF m = {} THEN << >>
  ELSE LET e == CHOOSE x \in m : TRUE
       IN  <<e[2].value>> \o ValuesOf(m \ {e})

\* vals.reduce((a, b) => a + b, 0)
RECURSIVE ReduceSum(_)
ReduceSum(vals) == IF vals = << >> THEN 0 ELSE Head(vals) + ReduceSum(Tail(vals))

RECURSIVE Gcd(_, _)
Gcd(a, b) == IF b = 0 THEN a ELSE Gcd(b, a % b)

\* the number a / b (a >= 0, b > 0), as a fraction in lowest terms
Divide(a, b) == LET g == Gcd(a, b) IN [num |-> a \div g, den |-> b \div g]

summary(votesMap, isRevealed) ==
  IF ~isRevealed THEN None
  ELSE LET vals == ValuesOf(votesMap) IN
       IF Len(vals) = 0 THEN Some([avg |-> None, count |-> 0])
       ELSE Some([avg |-> Some(Divide(ReduceSum(vals), Len(vals))), count |-> Len(vals)])

\* the votes maps a view can hold: some of the voters, each with a card value
Voters == 1 .. NumVoters
CardSet == {CARD_VALUES[i] : i \in 1 .. Len(CARD_VALUES)}

VoteMaps ==
  UNION {{{<<VoteDocId(u, f[u]), [uid |-> u, value |-> f[u]]>> : u \in S} : f \in [S -> CardSet]}
           : S \in SUBSET Voters}

\* the memo is computed for the votes and the revealed flag of the render
Summarize ==
  /\ sResult = None
  /\ sResult' = Some(summary(sVotes, sRevealed))
  /\ UNCHANGED <<now, storeVars, calls, returned, viewVars, sVotes, sRevealed>>

InitSummaryOf ==
  /\ now = 0
  /\ rooms = {}
  /\ participants = {}
  /\ rounds = {}
  /\ votes = {}
  /\ calls = {}
  /\ InitView({})
  /\ cUid = [c \in Uids |-> NoUid]
  /\ returned = {}
  /\ sVotes \in VoteMaps
  /\ sRevealed \in BOOLEAN
  /\ sResult = None

NextSummary == Summarize

SpecSummary == InitSummaryOf /\ [][NextSummary]_vars

\* ============================================================== claims
\* the step in which the store applies the pending write of call k and the call resolves
Applied(k, op, stage) == k.op = op /\ k.stage = stage /\ Resolved(k) \in calls'

\* C1: a round's revealed flag never goes from true to false, in the store and in
\* the successive snapshots of that round a view receives, and every round that
\* startRound creates starts with revealed = false.
C1_RevealedMonotonic ==
  [][/\ \A r \in rounds : r.revealed =>
          \A r2 \in rounds' : (r2.room = r.room /\ r2.id = r.id) => r2.revealed
     /\ \A r2 \in rounds' :
          (\A r \in rounds : ~(r.room = r2.room /\ r.id = r2.id)) => ~r2.revealed
     /\ \A c \in Uids :
          (cRound'[c] # None /\ cRound'[c][1].id \in seenRevealed[c]) => cRound'[c][1].revealed
    ]_vars

\* a view has seen a round revealed, and a later round exists that is not revealed
C1_Witness ==
  \E c \in mounted : \E r \in rounds, r2 \in rounds :
    /\ r.revealed /\ r.id \in seenRevealed[c]
    /\ r2.id > r.id /\ ~r2.revealed
    /\ cRound[c] # None /\ cRound[c][1].id = r2.id

\* C2: no castVote write that a client other than the revealing host has issued
\* through onVote is applied to the store once revealed = true has been written
\* for its round.
C2_NoVoteAppliedAfterReveal ==
  [][\A k \in calls : Applied(k, "castVote", "w1") =>
       \A r \in RoundAt(k.code, k.roundId) : r.createdBy # k.c => ~r.revealed]_vars

\* C3: a round holds at most one Vote document per uid; a castVote replaces the
\* voter's value and leaves the votes of the other uids as they are; the tally a
\* view takes from a votes snapshot is the number of distinct uids with a Vote
\* document under the round.
C3_OneVotePerUid ==
  [][/\ \A r \in rounds', u \in Uids :
          Cardinality({v \in votes' : v.room = r.room /\ v.round = r.id /\ v.uid = u}) <= 1
     /\ \A k \in calls : Applied(k, "castVote", "w1") =>
          /\ {v \in votes' : v.uid # k.c} = {v \in votes : v.uid # k.c}
          /\ \E v \in votes' : v.uid = k.c /\ v.round = k.roundId /\ v.value = k.value
     /\ \A c \in Uids : cVotes'[c] # cVotes[c] =>
          Cardinality(cVotes'[c]) = Cardinality({v.uid : v \in VotesAt(RoomCode, effDep[c])})
    ]_vars

\* every uid has voted, and a view still holds a value that its voter has replaced
C3_Witness ==
  /\ Cardinality(votes) = NumUids
  /\ \E c \in mounted : \E e \in cVotes[c] : \E v \in votes :
       v.uid = e[2].uid /\ v.value # e[2].value

\* C4: a room's currentRoundId is null or the id of a Round document of that room.
C4_CurrentRoundExists ==
  \A room \in rooms :
    room.currentRoundId = NoRound \/ RoundAt(room.code, room.currentRoundId) # {}

\* startRound has failed between its two writes: its Round exists and the room
\* does not reference it
C4_Witness ==
  \E k \in calls :
    /\ k.op = "startRound" /\ k.stage = "err" /\ k.roundId # NoRound
    /\ RoundAt(k.code, k.roundId) # {}
    /\ \A room \in RoomAt(k.code) : room.currentRoundId = NoRound

\* C5: a room's currentRoundId never changes from one round id to a different round id.
C5_NoDirectRoundChange ==
  [][\A r \in rooms, r2 \in rooms' :
       (r.code = r2.code /\ r.currentRoundId # NoRound) =>
         r2.currentRoundId \in {NoRound, r.currentRoundId}]_vars

\* C6: when createRoom returns a code, no room of that code existed when the call
\* started, no other call has returned that code, the Room document of that code
\* has createdBy = caller and currentRoundId = null, and the caller's Participant
\* document exists under it.
C6_CreateRoomReturnsOwnRoom ==
  [][\A k \in calls : Applied(k, "createRoom", "w2") =>
       /\ k.code \notin k.pre
       /\ k.code \notin returned
       /\ Cardinality({r \in rooms' : r.code = k.code}) = 1
       /\ \A r \in rooms' : r.code = k.code => r.createdBy = k.c /\ r.currentRoundId = NoRound
       /\ \E p \in participants' : p.room = k.code /\ p.id = k.c /\ p.uid = k.c]_vars

\* a createRoom that started when no room existed has collided and then returned a code
C6_Witness ==
  \E k \in calls :
    k.op = "createRoom" /\ k.stage = "ok" /\ k.attempt > 0 /\ k.pre = {} /\ k.code \in returned

\* C7: a createRoom all of whose generated codes collide makes 10 attempts and fails
\* with the 'failed to create a unique room code' error; an error that is no
\* collision ends the call at once.
C7_ExhaustedError ==
  \A k \in calls :
    (k.op = "createRoom" /\ k.stage = "err") =>
      \/ k.err = UnavailableMsg
      \/ (k.attempt + 1 = MaxAttempts /\ k.err = ExhaustedMsg)

\* the name and the code a user means by what is typed
C8_MeantName(name) == IF name = <<" ">> THEN Guest ELSE <<"B", "o">>

\* C8: joinRoom on a code of no room fails with 'Room not found.' and writes no
\* Participant; on the code of a room it leaves exactly one Participant document of
\* the caller under the trimmed, upper-cased code, holding the latest name, and
\* changes no other Participant.
C8_JoinRoom ==
  [][\A k \in calls : \A d \in Draws :
       (/\ k.op = "joinRoom" /\ k.stage = "w1" /\ k.code = TypedCode(d)
        /\ k \notin calls' /\ Rejected(k, UnavailableMsg) \notin calls') =>
         LET code == generateRoomCode(d)
             mine(P) == {p \in P : p.room = code /\ (p.id = k.c \/ p.uid = k.c)}
         IN  IF RoomAt(code) = {}
             THEN Rejected(k, RoomNotFoundMsg) \in calls' /\ participants' = participants
             ELSE /\ Resolved(k) \in calls'
                  /\ Cardinality(mine(participants')) = 1
                  /\ \A p \in mine(participants') :
                       p.id = k.c /\ p.uid = k.c /\ p.name = Some(C8_MeantName(k.name))
                  /\ participants' \ mine(participants') = participants \ mine(participants)
                  /\ \A p \in participants' : RoomAt(p.room) # {}
    ]_vars

\* the host has joined again under another name, and a join of a missing room has failed
C8_Witness ==
  /\ \E p \in participants : p.id = 1 /\ p.name = Some(<<"B", "o">>)
  /\ Cardinality(ParticipantAt(RoomCode, 1)) = 1
  /\ \E k \in calls : k.op = "joinRoom" /\ k.err = RoomNotFoundMsg

\* the sum of the values of the votes of the uids of S in the votes map m
RECURSIVE C9_SumBy(_, _)
C9_SumBy(m, S) ==
  IF S = {} THEN 0
  ELSE LET u == CHOOSE x \in S : TRUE
           mine == {e \in m : e[2].uid = u}
       IN  (IF mine = {} THEN 0 ELSE (CHOOSE e \in mine : TRUE)[2].value) + C9_SumBy(m, S \ {u})

\* C9: the summary of a revealed round has count = the number of votes in the
\* votes map and average = the sum of their values / count, a 0 counted like any
\* other value; the average is null when count = 0; a uid without a vote adds to
\* neither.
C9_Summary ==
  (sResult # None /\ sRevealed) =>
    LET r == sResult[1]
        n == Cardinality({e[2].uid : e \in sVotes})
    IN  /\ r # None
        /\ r[1].count = n
        /\ (n = 0 => r[1].avg = None)
        /\ (n > 0 => /\ r[1].avg # None
                     /\ r[1].avg[1].den > 0
                     /\ r[1].avg[1].num * n = C9_SumBy(sVotes, Voters) * r[1].avg[1].den)

\* votes 3 and 0 of two voters, a third uid without a vote: count 2, average 3/2
C9_Witness ==
  /\ sRevealed /\ sResult # None /\ sResult[1] # None
  /\ {e[2].value : e \in sVotes} = {0, 3}
  /\ sResult[1][1].count = 2 /\ sResult[1][1].count < NumVoters
  /\ sResult[1][1].avg = Some([num |-> 3, den |-> 2])

\* C10: clearCurrentRound changes the room's currentRoundId, to null, and its
\* updatedAt, and nothing else: no other field of the room, no Round, no Vote and
\* no Participant.
C10_ClearChangesOnlyRoom ==
  [][\A k \in calls : Applied(k, "clearCurrentRound", "w1") =>
       /\ rounds' = rounds /\ votes' = votes /\ participants' = participants
       /\ Cardinality(rooms') = Cardinality(rooms)
       /\ \A r \in rooms : \E r2 \in rooms' :
            /\ r2.code = r.code /\ r2.createdAt = r.createdAt /\ r2.createdBy = r.createdBy
            /\ r.code = k.code => r2.currentRoundId = NoRound
            /\ r.code # k.code => r2 = r]_vars

\* a revealed round with votes has just been cleared and is still in the store
C10_Witness ==
  \E k \in calls : \E r \in rounds :
    /\ k.op = "clearCurrentRound" /\ k.stage = "ok"
    /\ r.revealed /\ VotesAt(r.room, r.id) # {}
    /\ \A room \in RoomAt(k.code) : room.currentRoundId = NoRound

\* C11: the joinedAt of a Participant document that exists is changed by no later
\* joinRoom or touchPresence of its uid.
C11_JoinedAtWriteOnce ==
  [][\A p \in participants, p2 \in participants' :
       (p.room = p2.room /\ p.id = p2.id /\ p.joinedAt # NoTime) => p2.joinedAt = p.joinedAt]_vars

\* C12: leaveRoom succeeds whether or not the caller's Participant document exists;
\* after it the document does not exist, a second deleteDoc would change nothing,
\* and no other Participant, no Room, no Round and no Vote has changed.
C12_LeaveRoomIdempotent ==
  [][\A k \in calls :
       (/\ k.op = "leaveRoom" /\ k.stage = "w1"
        /\ k \notin calls' /\ Rejected(k, UnavailableMsg) \notin calls') =>
         /\ Resolved(k) \in calls'
         /\ {p \in participants' : p.room = RoomCode /\ p.id = k.c} = {}
         /\ {p \in participants' : p.id # k.c} = {p \in participants : p.id # k.c}
         /\ ParticipantAt(RoomCode, k.c) = {} => participants' = participants
         /\ DeleteParticipantDoc(participants', RoomCode, k.c) = participants'
         /\ rooms' = rooms /\ rounds' = rounds /\ votes' = votes]_vars

\* a leaveRoom called when the caller had no Participant document has succeeded,
\* and the Participant of another uid, the round and the votes are in the store
C12_Witness ==
  \E k \in calls :
    /\ k.op = "leaveRoom" /\ k.stage = "ok" /\ k.pre = {}
    /\ \E p \in participants : p.room = RoomCode /\ p.id # k.c
    /\ rounds # {} /\ \E v \in votes : v.uid = k.c

\* C13: in every state of a view in which the round + votes effect has run for the
\* projected room.currentRoundId, a projected round that is not null is the round
\* of that id.
C13_ProjectedRoundIsCurrent ==
  \A c \in mounted :
    (effDep[c] = RoundDep(c) /\ cRound[c] # None) => cRound[c][1].id = RoundDep(c)

\* C14: a view that has processed a room snapshot with currentRoundId = null, the
\* effect it triggers included, has round = null and an empty votes map for as long
\* as its projected currentRoundId is null; no step of a reset (the write, the
\* continuation of onReset, the effect) changes the view's participants list.
C14_ResetClearsRound ==
  [][/\ \A c \in mounted :
          (/\ cRoom'[c] # None /\ cRoom'[c][1].currentRoundId = NoRound
           /\ effDep'[c] = NoRound) => (cRound'[c] = None /\ cVotes'[c] = {})
     /\ (\/ \E k \in calls : k.op = "clearCurrentRound" /\ k.stage # "err" /\ k \notin calls'
         \/ effDep' # effDep) => cParticipants' = cParticipants
    ]_vars

\* the host has cleared a round that has a vote; its view has processed the room
\* snapshot with currentRoundId = null and still lists both participants
C14_Witness ==
  \E c \in mounted :
    /\ cRoom[c] # None /\ cRoom[c][1].currentRoundId = NoRound /\ effDep[c] = NoRound
    /\ \E r \in rounds : VotesAt(r.room, r.id) # {} /\ r.id \in seenRevealed[c]
    /\ \A room \in rooms : room.currentRoundId = NoRound
    /\ cRound[c] = None /\ cVotes[c] = {} /\ Len(cParticipants[c]) = NumUids

\* the projection of view c is the store
C15_Synced(c) ==
  /\ cRoom[c] = (IF RoomAt(RoomCode) = {} THEN None ELSE Some(CHOOSE r \in RoomAt(RoomCode) : TRUE))
  /\ {cParticipants[c][i] : i \in 1 .. Len(cParticipants[c])} = ParticipantsAt(RoomCode)
  /\ Len(cParticipants[c]) = Cardinality(ParticipantsAt(RoomCode))
  /\ \A room \in RoomAt(RoomCode) :
       IF room.currentRoundId = NoRound
       THEN cRound[c] = None /\ cVotes[c] = {}
       ELSE /\ cRound[c] # None /\ RoundAt(RoomCode, room.currentRoundId) = {cRound[c][1]}
            /\ {e[2] : e \in cVotes[c]} =
                 {VoteData(v) : v \in VotesAt(RoomCode, room.currentRoundId)}
            /\ Cardinality(cVotes[c]) = Cardinality(VotesAt(RoomCode, room.currentRoundId))

C16_NoPingAfterLeave ==
  [][\A c \in Uids :
       (c \notin mounted \/ InFlight(c, "leaveRoom") # {}) =>
         \A k \in calls' \ calls : ~(k.c = c /\ k.op = "touchPresence" /\ k.stage = "w1")]_vars

\* C20: a touchPresence that the view started while its onLeave was running does not
\* create the caller's Participant document: when its write is applied the
\* document exists.
C20_PingDoesNotRecreate ==
  [][\A k \in calls :
       (Applied(k, "touchPresence", "w1") /\ k.leaving) =>
         ParticipantAt(normalizeRoomCode(k.code), k.c) # {}]_vars

\* C17: when a write of startRound, revealRound, clearCurrentRound or castVote
\* fails, the step of the failure changes no document; when the handler's catch
\* block has run, the view's err is the failure, its room, round, votes and
\* participants are as before, and the store holds no Round that a failed
\* startRound has created.
C17_FailureLeavesState ==
  [][\A k \in calls :
       k.op \in {"startRound", "revealRound", "clearCurrentRound", "castVote"} =>
         /\ (k.stage \in {"w1", "w2"} /\ \E k2 \in calls' \ calls : k2.n = k.n /\ k2.stage = "err")
              => (rooms' = rooms /\ rounds' = rounds /\ votes' = votes)
         /\ (k.stage = "err" /\ k \notin calls') =>
              /\ cErr'[k.c] = k.err
              /\ cRoom' = cRoom /\ cRound' = cRound /\ cVotes' = cVotes
              /\ cParticipants' = cParticipants
              /\ k.op = "startRound" => RoundAt(normalizeRoomCode(k.code), k.roundId) = {}]_vars

\* C18: the error callback of a listener sets the view's err, to the error's message
\* or to the listener's fallback, and nothing else: room, participants, round and
\* votes keep their values, the round + votes effect is not re-run, the other
\* listeners stay attached, and no call and no document changes.
C18_FeedErrorOnlySetsErr ==
  [][\A c \in mounted, l \in Listeners :
       (l \notin dead[c] /\ l \in dead'[c]) =>
         /\ cErr'[c] \in {UnavailableMsg, Fallback(l)}
         /\ \A c2 \in Uids \ {c} : cErr'[c2] = cErr[c2]
         /\ cRoom' = cRoom /\ cParticipants' = cParticipants
         /\ cRound' = cRound /\ cVotes' = cVotes
         /\ effDep' = effDep /\ mounted' = mounted
         /\ dead'[c] = dead[c] \cup {l}
         /\ calls' = calls
         /\ rooms' = rooms /\ participants' = participants
         /\ rounds' = rounds /\ votes' = votes]_vars

\* the room listener and the round listener have failed after delivering, the view
\* still holds the room and the round, a later vote has cleared the message, and
\* the votes listener has delivered a vote
C18_Witness ==
  \E c \in mounted :
    /\ dead[c] = {"room", "round"}
    /\ cRoom[c] # None /\ cRound[c] # None
    /\ cErr[c] = NoErr
    /\ cVotes[c] # {} /\ Len(cParticipants[c]) = NumUids

\* C19: a castVote that onVote starts is for a round the view projects with
\* revealed = false, and, once the round + votes effect has run for the projected
\* room.currentRoundId, for the round of that id; with no projected round onVote
\* starts nothing.
C19_VoteTargetsCurrentRound ==
  [][\A k \in calls' \ calls :
       (k.op = "castVote" /\ k.stage = "w1") =>
         /\ cRound[k.c] # None
         /\ ~cRound[k.c][1].revealed
         /\ k.roundId = cRound[k.c][1].id
         /\ effDep[k.c] = RoundDep(k.c) => k.roundId = RoundDep(k.c)]_vars

\* C21: a startRound, revealRound or clearCurrentRound that the room view starts
\* is started by a view that projects a room, has its uid resolved, and whose uid
\* is the createdBy of the projected room; a revealRound is started only by a
\* view that projects a round.
C21_OnlyOwnerWrites ==
  [][\A k \in calls' \ calls :
       (k.op \in {"startRound", "revealRound", "clearCurrentRound"} /\ k.stage = "w1") =>
         /\ cRoom[k.c] # None
         /\ cUid[k.c] # NoUid
         /\ cRoom[k.c] # None => cRoom[k.c][1].createdBy = cUid[k.c]
         /\ k.op = "revealRound" => cRound[k.c] # None]_vars

\* the view of a uid that is not the host projects the room, a round and a vote
\* with its uid resolved, and the host has started a reveal and, later, a reset
C21_Witness ==
  /\ \E c \in mounted :
       /\ cUid[c] # NoUid /\ cRoom[c] # None /\ cRoom[c][1].createdBy # cUid[c]
       /\ cRound[c] # None /\ cVotes[c] # {}
  /\ \E r \in rounds : r.revealed
  /\ \E k \in calls : k.op = "clearCurrentRound"
  /\ \A k \in calls : k.c = 1

====
